---- MODULE Spec2Model ----
(***************************************************************************)
(* The payment-callback reconciliation core of src/index.js: the POST      *)
(* /payment/callback handler and the helpers it awaits, run by several     *)
(* concurrent invocations against one shared Firebase Realtime Database.   *)
(*                                                                         *)
(* Each action is one store operation of one invocation (the operation an  *)
(* `await` is pending on) followed by the synchronous code that runs up to *)
(* the next `await`.  JavaScript values are written as strings:            *)
(*   "<undefined>", "<null>"      undefined and null                        *)
(*   "#n"                         the number n                              *)
(*   "<inherited>"                a method inherited from Object.prototype *)
(*   anything else                the string itself                        *)
(* A JavaScript object is a function from its own keys; null, where an     *)
(* object is expected, is the function with no keys.                       *)
(***************************************************************************)
EXTENDS Integers, Sequences, FiniteSets, TLC

\* Number of POST /payment/callback invocations (they may all be in flight).
MaxCalls == 2

Calls == 1 .. MaxCalls

VARIABLES
    dbAvailable,         \* index.js:54   db is non-null
    scenario,            \* the name of the run's member of Scenarios
    orders,              \* orders/{orderId}
    payments,            \* payments/{paymentId}
    payments_by_order,   \* payments_by_order/{orderId}/{paymentId}, keyed <<orderId, paymentId>>
    payments_unmatched,  \* payments_unmatched/{paymentId}
    task                 \* per invocation: position, locals, response(s) sent

vars == <<dbAvailable, scenario, orders, payments, payments_by_order, payments_unmatched,
          task>>

store == <<orders, payments, payments_by_order, payments_unmatched>>

-----------------------------------------------------------------------------
(* JavaScript values *)

UNDEFINED == "<undefined>"
NULL == "<null>"
INHERITED == "<inherited>"

Falsy(v) == v \in {UNDEFINED, NULL, "", "#0"}

\* a || b
Or(a, b) == IF Falsy(a) THEN b ELSE a

\* a ?? b
Coalesce(a, b) == IF a \in {UNDEFINED, NULL} THEN b ELSE a

\* obj[k] / obj.k
Field(obj, k) == IF k \in DOMAIN obj THEN obj[k] ELSE UNDEFINED

NullObject == <<>>

IsNull(obj) == DOMAIN obj = {}

\* { ...a, ...b }
Spread(a, b) == [k \in DOMAIN a \cup DOMAIN b |-> IF k \in DOMAIN b THEN b[k] ELSE a[k]]

\* The spelling of the strings and numbers that the code inspects by character.
Chars(s) ==
    CASE s = "" -> <<>>
      [] s = "   " -> <<" ", " ", " ">>
      [] s = "BC1" -> <<"B", "C", "1">>
      [] s = " BC1 " -> <<" ", "B", "C", "1", " ">>
      [] s = "BC2" -> <<"B", "C", "2">>
      [] s = "ORD1" -> <<"O", "R", "D", "1">>
      [] s = "ORD2" -> <<"O", "R", "D", "2">>
      [] s = "17" -> <<"1", "7">>
      [] s = "2024-ORDER-77" -> <<"2", "0", "2", "4", "-", "O", "R", "D", "E", "R", "-", "7", "7">>
      [] s = "2024-order-77" -> <<"2", "0", "2", "4", "-", "o", "r", "d", "e", "r", "-", "7", "7">>
      [] s = "0" -> <<"0">>
      [] s = "1" -> <<"1">>
      [] s = "2" -> <<"2">>
      [] s = "3" -> <<"3">>
      [] s = "50" -> <<"5", "0">>
      [] s = "#1" -> <<"#", "1">>
      [] s = "#0" -> <<"#", "0">>
      [] s = "#50" -> <<"#", "5", "0">>
      [] s = "success" -> <<"s", "u", "c", "c", "e", "s", "s">>
      [] s = "SUCCESS" -> <<"S", "U", "C", "C", "E", "S", "S">>
      [] s = "pending" -> <<"p", "e", "n", "d", "i", "n", "g">>
      [] s = "failed" -> <<"f", "a", "i", "l", "e", "d">>
      [] s = "failure" -> <<"f", "a", "i", "l", "u", "r", "e">>
      [] s = "Cancelled" -> <<"C", "a", "n", "c", "e", "l", "l", "e", "d">>
      [] s = "cancelled" -> <<"c", "a", "n", "c", "e", "l", "l", "e", "d">>
      [] s = "unknown" -> <<"u", "n", "k", "n", "o", "w", "n">>
      [] s = "constructor" -> <<"c", "o", "n", "s", "t", "r", "u", "c", "t", "o", "r">>

Strings ==
    {"", "   ", "BC1", " BC1 ", "BC2", "ORD1", "ORD2", "17", "2024-ORDER-77",
     "2024-order-77", "0", "1", "2", "3", "50", "#1", "#0", "#50", "success", "SUCCESS",
     "pending", "failed", "failure", "Cancelled", "cancelled", "unknown",
     "constructor"}

Str(cs) == CHOOSE s \in Strings : Chars(s) = cs

IsNumber(v) == v \in Strings /\ Chars(v) # <<>> /\ Head(Chars(v)) = "#"

\* String(v), v.toString()
JsString(v) == IF IsNumber(v) THEN Str(Tail(Chars(v))) ELSE v

RECURSIVE TrimStart(_)
TrimStart(cs) == IF cs # <<>> /\ Head(cs) = " " THEN TrimStart(Tail(cs)) ELSE cs

RECURSIVE TrimEnd(_)
TrimEnd(cs) ==
    IF cs # <<>> /\ cs[Len(cs)] = " " THEN TrimEnd(SubSeq(cs, 1, Len(cs) - 1)) ELSE cs

\* s.trim()
Trim(s) == Str(TrimEnd(TrimStart(Chars(s))))

LowerChar(c) ==
    CASE c = "S" -> "s" [] c = "U" -> "u" [] c = "C" -> "c" [] c = "E" -> "e"
      [] c = "O" -> "o" [] c = "R" -> "r" [] c = "D" -> "d" [] c = "B" -> "b"
      [] OTHER -> c

\* s.toLowerCase()
ToLowerCase(s) == Str([n \in 1 .. Len(Chars(s)) |-> LowerChar(Chars(s)[n])])

\* s.startsWith(prefix)
StartsWith(s, prefix) ==
    /\ Len(Chars(s)) >= Len(prefix)
    /\ SubSeq(Chars(s), 1, Len(prefix)) = prefix

Length(s) == Len(Chars(s))

\* Number(v), for the decimal strings and numbers of the model: Number("") is 0
Number(v) ==
    IF IsNumber(v) THEN v
    ELSE IF v = "" THEN "#0"
    ELSE Str(<<"#">> \o Chars(v))

\* new Date().toISOString() / Date.now() during invocation i: one instant per
\* invocation, distinct between invocations.
Stamps == <<"t1", "t2", "t3", "t4">>

Now(i) == Stamps[i]

GeneratedPayIds == <<"PAY-t1", "PAY-t2", "PAY-t3", "PAY-t4">>

GeneratedUnmatchedIds == <<"UNMATCHED-t1", "UNMATCHED-t2", "UNMATCHED-t3", "UNMATCHED-t4">>

-----------------------------------------------------------------------------
(* Helper utilities, index.js:137-160 *)

ObjectPrototypeKeys ==
    {"constructor", "toString", "valueOf", "hasOwnProperty", "isPrototypeOf",
     "propertyIsEnumerable", "toLocaleString"}

\* STATUS_NORMALISER[key]: the own keys of the literal, then the methods every
\* object literal inherits.
STATUS_NORMALISER(key) ==
    CASE key = "1" -> "success"
      [] key = "2" -> "pending"
      [] key = "3" -> "failed"
      [] key = "success" -> "success"
      [] key = "pending" -> "pending"
      [] key = "failed" -> "failed"
      [] key = "failure" -> "failed"
      [] key = "cancelled" -> "failed"
      [] key \in ObjectPrototypeKeys -> INHERITED
      [] OTHER -> UNDEFINED

ORDER_STATUS_MAP(status) ==
    CASE status = "success" -> "PAID"
      [] status = "pending" -> "PENDING_PAYMENT"
      [] status = "failed" -> "PAYMENT_FAILED"
      [] OTHER -> UNDEFINED

normaliseStatus(status) ==
    IF Falsy(status)
    THEN "pending"
    ELSE LET key == ToLowerCase(JsString(status))
         IN Or(Or(STATUS_NORMALISER(key), STATUS_NORMALISER(JsString(status))), "pending")

\* the admin table without its entries
adminStatusMap_None(status) == UNDEFINED

adminStatusMap(status) ==
    CASE status = "PENDING_PAYMENT" -> "pending"
      [] status = "PAID" -> "approved"
      [] status = "PROCESSING" -> "in-progress"
      [] status = "PRINTING" -> "printing"
      [] status = "COMPLETED" -> "completed"
      [] status = "CANCELLED" -> "cancelled"
      [] status = "PAYMENT_FAILED" -> "pending"
      [] OTHER -> UNDEFINED

-----------------------------------------------------------------------------
(* The Realtime Database client *)

\* The keys whose value is itself an object (of strings and numbers).
NestedKeys == {"raw", "rawPayload", "paymentDetails"}

StripNullFlat(obj) == [k \in {x \in DOMAIN obj : obj[x] # NULL} |-> obj[k]]

\* What set()/update() keep of a value: a null-valued key is not stored.
StripNull(obj) ==
    [k \in {x \in DOMAIN obj : x \in NestedKeys \/ obj[x] # NULL} |->
        IF k \in NestedKeys THEN StripNullFlat(obj[k]) ELSE obj[k]]

StorableFlat(obj) == \A k \in DOMAIN obj : obj[k] \notin {UNDEFINED, INHERITED}

\* set()/update() validate their argument before anything is sent and throw
\* on undefined and on functions.
Storable(obj) ==
    \A k \in DOMAIN obj :
        IF k \in NestedKeys THEN StorableFlat(obj[k]) ELSE obj[k] \notin {UNDEFINED, INHERITED}

\* ref.update(fields) on orders/{id}: merges into the document, creating it
\* when there is none.
UpdateDoc(coll, id, fields) ==
    LET old == IF id \in DOMAIN coll THEN coll[id] ELSE NullObject
    IN [k \in DOMAIN coll \cup {id} |->
           IF k = id THEN StripNull(Spread(old, fields)) ELSE coll[k]]

\* a set that leaves a document that is there as it is
SetDoc_KeepExisting(coll, id, value) ==
    [k \in DOMAIN coll \cup {id} |->
        IF k \in DOMAIN coll THEN coll[k] ELSE StripNull(value)]

\* ref.set(value)
SetDoc(coll, id, value) ==
    [k \in DOMAIN coll \cup {id} |-> IF k = id THEN StripNull(value) ELSE coll[k]]

\* orderByChild(child).equalTo(value).once('value'): the keys of the snapshot
Matching(coll, child, value) == {k \in DOMAIN coll : Field(coll[k], child) = value}

-----------------------------------------------------------------------------
(* Invocations *)

IdleTask ==
    [pc |-> "idle",
     entry |-> "none",
     payload |-> NullObject,
     billcode |-> UNDEFINED,
     paymentStatus |-> UNDEFINED,
     paymentData |-> NullObject,
     orderId |-> NULL,
     userId |-> NULL,
     payment |-> NullObject,
     via |-> "none",
     record |-> NullObject,
     ops |-> {},
     res |-> <<>>,
     error |-> UNDEFINED,
     pre |-> {}]

\* res.status(code).json(body)
Respond(t, code, body) ==
    [t EXCEPT !.pc = "done", !.res = Append(@, [code |-> code, body |-> body])]

\* an exception that leaves the handler without an answer
Throw_NoResponse(t, message) == [t EXCEPT !.pc = "threw", !.error = message]

\* An exception leaving the code of `t`: the handler's catch answers 500
\* (index.js:471-478); a direct call of a helper sees it thrown.
Throw(t, message) ==
    IF t.entry = "callback"
    THEN Respond([t EXCEPT !.error = message], 500,
                 [received |-> TRUE, success |-> FALSE, error |-> message])
    ELSE [t EXCEPT !.pc = "threw", !.error = message]

Did(t, op) == [t EXCEPT !.ops = @ \cup {op}]

\* the identifier taken from the billing code before the transaction id
PaymentId_BillcodeFirst(i, paymentData) ==
    Or(Or(Or(Field(paymentData, "billcode"), Field(paymentData, "transaction_id")),
          Field(paymentData, "paymentId")),
       GeneratedPayIds[i])

\* index.js:234-254
PaymentId(i, paymentData) ==
    Or(Or(Or(Field(paymentData, "transaction_id"), Field(paymentData, "paymentId")),
          Field(paymentData, "billcode")),
       GeneratedPayIds[i])

BuildRecord(i, paymentData, orderId, userId) ==
    [paymentId |-> PaymentId(i, paymentData),
     orderId |-> orderId,
     userId |-> userId,
     status |-> normaliseStatus(Field(paymentData, "status")),
     amount |-> Number(Coalesce(Field(paymentData, "amount"), "#0")),
     paymentMethod |-> Or(Field(paymentData, "payment_method"), "toyyibpay"),
     createdAt |-> Or(Field(paymentData, "timestamp"), Now(i)),
     billcode |-> Or(Field(paymentData, "billcode"), NULL),
     billCode |-> Or(Field(paymentData, "billcode"), NULL),
     transactionId |-> Or(Field(paymentData, "transaction_id"), NULL),
     toyyibPayOrderId |-> Or(Field(paymentData, "order_id"), NULL),
     signature |-> Or(Field(paymentData, "signature"), NULL),
     rawPayload |-> paymentData.raw,
     updatedAt |-> Now(i)]

\* savePaymentRecord without its check of userId
savePaymentRecord_NoUserCheck(i, t) ==
    IF ~dbAvailable
    THEN Throw(t, "Firebase database is not available")
    ELSE IF Falsy(t.orderId)
    THEN Throw(t, "Order ID is required to save payment")
    ELSE [t EXCEPT !.record = BuildRecord(i, t.paymentData, t.orderId, t.userId),
                   !.pc = "setPayment"]

\* savePaymentRecord, index.js:223-257: from the call to the first await.
savePaymentRecord(i, t) ==
    IF ~dbAvailable
    THEN Throw(t, "Firebase database is not available")
    ELSE IF Falsy(t.orderId)
    THEN Throw(t, "Order ID is required to save payment")
    ELSE IF Falsy(t.userId)
    THEN Throw(t, "User ID is required to save payment")
    ELSE [t EXCEPT !.record = BuildRecord(i, t.paymentData, t.orderId, t.userId),
                   !.pc = "setPayment"]

\* the handler handing every resolved order to savePaymentRecord
Decide_SaveAnyway(i, t) ==
    IF Falsy(t.orderId)
    THEN [t EXCEPT !.pc = "setUnmatched"]
    ELSE savePaymentRecord(i, t)

\* index.js:405-438: from the end of the resolution to the next await.
Decide(i, t) ==
    IF Falsy(t.orderId) \/ Falsy(t.userId)
    THEN [t EXCEPT !.pc = "setUnmatched"]
    ELSE savePaymentRecord(i, t)

\* the handler taking any reference as the order identifier
AcceptsOrderReference_Any(reference) == TRUE

\* index.js:373-375
AcceptsOrderReference(reference) ==
    StartsWith(reference, <<"O", "R", "D">>) \/ Length(reference) > 10

\* index.js:369-381: what follows findOrderByBillcode / findOrderFromPayments.
AfterLookup(i, t, order, via) ==
    LET orderId == Or(Field(order, "id"), NULL)
        userId == Or(Or(Or(Field(order, "userId"), Field(order, "userID")),
                        Field(order, "customerId")), NULL)
        reference == Field(t.paymentData, "order_id")
        found == [t EXCEPT !.orderId = orderId, !.userId = userId, !.via = via]
    IN IF Falsy(orderId) /\ ~Falsy(reference) /\ AcceptsOrderReference(Trim(JsString(reference)))
       THEN [found EXCEPT !.orderId = Trim(JsString(reference)),
                          !.via = "payload.order_id",
                          !.pc = "readPayloadOrder"]
       ELSE Decide(i, found)

\* { id: orderId, ...doc }
OrderObject(id, doc) == Spread([id |-> id], doc)

-----------------------------------------------------------------------------
(* Inputs *)

NewOrder == [status |-> "PENDING_PAYMENT", adminStatus |-> "pending"]

\* A payment as an earlier callback stored it.
EarlierPayment(paymentId, orderId, userId, fields) ==
    Spread([paymentId |-> paymentId, orderId |-> orderId, userId |-> userId,
            status |-> "pending", amount |-> "#50", paymentMethod |-> "toyyibpay",
            createdAt |-> "t0", updatedAt |-> "t0"], fields)

EarlierIndexEntry ==
    [paymentId |-> "TX0", status |-> "pending", amount |-> "#50", createdAt |-> "t0",
     updatedAt |-> "t0"]

\* req.body of the callbacks
PaidRequest == [billcode |-> "BC1", status |-> "1", amount |-> "50"]

FailedRequest == [billcode |-> "BC1", status |-> "3"]

NoStatusRequest == [billcode |-> "BC1"]

InheritedKeyRequest == [billcode |-> "BC1", status |-> "constructor"]

OtherNamesRequest ==
    [billCode |-> " BC1 ", billpaymentStatus |-> "#1", billpaymentAmount |-> "50",
     billpaymentInvoiceNo |-> "TX1", signature |-> NULL]

ReferenceRequest == [billcode |-> "BC2", status |-> "SUCCESS", order_id |-> "ORD2"]

OtherOrderRequest == [billcode |-> "BC2", status |-> "Cancelled", externalRef |-> "ORD1"]

ShortReferenceRequest ==
    [bill_code |-> "BC2", statuscode |-> "2", order_id |-> "17", signature |-> NULL]

LongReferenceRequest ==
    [billcode |-> "BC2", status |-> "unknown", billExternalReferenceNo |-> "2024-ORDER-77"]

NoReferenceRequest == [billcode |-> "BC2", status |-> "failure"]

BlankCodeRequest == [billcode |-> "   ", status |-> "1"]

EmptyRequest == NullObject

\* orders carrying the primary spelling; one order without a billing code
PrimaryStore ==
    [orders |-> ("ORD1" :> Spread(NewOrder, [userId |-> "u1", billcode |-> "BC1"]))
                @@ ("ORD2" :> Spread(NewOrder, [userId |-> "u2"])),
     payments |-> NullObject,
     payments_by_order |-> NullObject]

\* the legacy spelling, another user key, an order without a user
LegacyStore ==
    [orders |-> ("ORD1" :> Spread(NewOrder, [userID |-> "u1", billCode |-> "BC1"]))
                @@ ("ORD2" :> NewOrder),
     payments |-> NullObject,
     payments_by_order |-> NullObject]

\* an earlier payment whose order record is gone
OrderGoneStore ==
    [orders |-> ("ORD2" :> Spread(NewOrder, [userId |-> "u2", billcode |-> "BC2"])),
     payments |-> ("TX0" :> EarlierPayment("TX0", "ORD1", "u1",
                                          [billcode |-> "BC1", billCode |-> "BC1"])),
     payments_by_order |-> (<<"ORD1", "TX0">> :> EarlierIndexEntry)]

\* an earlier payment under the legacy spelling whose order is still there,
\* and an earlier payment that names no order
EarlierPaymentStore ==
    [orders |-> ("ORD1" :> Spread(NewOrder, [customerId |-> "u1"]))
                @@ ("17" :> Spread(NewOrder, [customerID |-> "u3"])),
     payments |-> ("TX0" :> EarlierPayment("TX0", "ORD1", "u1", [billCode |-> "BC1"]))
                  @@ ("TX9" :> [paymentId |-> "TX9", billcode |-> "BC2", status |-> "pending"]),
     payments_by_order |-> (<<"ORD1", "TX0">> :> EarlierIndexEntry)]

\* The contents of the store when the first callback arrives, and the
\* callbacks the gateway sends in that run.
Scenarios ==
    {[name |-> "known code",
      store |-> PrimaryStore,
      requests |-> {PaidRequest, FailedRequest, NoStatusRequest, NoReferenceRequest}],
     [name |-> "order reference",
      store |-> PrimaryStore,
      requests |-> {ReferenceRequest, OtherOrderRequest}],
     [name |-> "legacy names",
      store |-> LegacyStore,
      requests |-> {OtherNamesRequest, ShortReferenceRequest, ReferenceRequest}],
     [name |-> "malformed",
      store |-> LegacyStore,
      requests |-> {InheritedKeyRequest, BlankCodeRequest, EmptyRequest}],
     [name |-> "order gone",
      store |-> OrderGoneStore,
      requests |-> {PaidRequest, NoStatusRequest, NoReferenceRequest}],
     [name |-> "earlier payment",
      store |-> EarlierPaymentStore,
      requests |-> {OtherNamesRequest, LongReferenceRequest, ShortReferenceRequest}]}

Scenario == CHOOSE s \in Scenarios : s.name = scenario

-----------------------------------------------------------------------------
(* POST /payment/callback, index.js:335-479 *)

Init ==
    /\ dbAvailable \in BOOLEAN
    /\ \E s \in Scenarios :
          /\ orders = s.store.orders
          /\ payments = s.store.payments
          /\ payments_by_order = s.store.payments_by_order
          /\ scenario = s.name
    /\ payments_unmatched = NullObject
    /\ task = [i \in Calls |-> IdleTask]

Acknowledged == {i \in Calls : task[i].pc = "done"}

\* Invocations are numbered in the order they arrive.
Arrives(i) ==
    /\ task[i].pc = "idle"
    /\ \A j \in Calls : j < i => task[j].pc # "idle"

\* index.js:350-361
PaymentData(i, payload, billcode) ==
    [billcode |-> billcode,
     status |-> Or(Or(Or(Field(payload, "status"), Field(payload, "statuscode")),
                      Field(payload, "billpaymentStatus")), "pending"),
     amount |-> Or(Or(Field(payload, "amount"), Field(payload, "billpaymentAmount")),
                   Field(payload, "totalAmount")),
     payment_method |-> Or(Or(Field(payload, "payment_method"), Field(payload, "method")),
                           "toyyibpay"),
     timestamp |-> Or(Or(Field(payload, "timestamp"), Field(payload, "billpaymentTime")),
                      Now(i)),
     transaction_id |-> Or(Or(Field(payload, "transaction_id"),
                              Field(payload, "billpaymentInvoiceNo")),
                           Field(payload, "invoice_no")),
     order_id |-> Or(Or(Field(payload, "order_id"), Field(payload, "externalRef")),
                     Field(payload, "billExternalReferenceNo")),
     signature |-> Field(payload, "signature"),
     raw |-> payload]

\* the handler answering 400 to a callback without a billing code
HandlerEntry_MissingIs400(i, t, payload) ==
    LET billcode == Trim(JsString(Or(Or(Or(Field(payload, "billcode"),
                                           Field(payload, "billCode")),
                                        Field(payload, "bill_code")), "")))
        data == PaymentData(i, payload, billcode)
    IN IF ~dbAvailable
       THEN Throw(t, "Firebase Admin is not initialised. Set service credentials.")
       ELSE IF Falsy(billcode)
       THEN Respond(t, 400, [received |-> TRUE, error |-> "Missing billcode"])
       ELSE [t EXCEPT !.billcode = billcode,
                      !.paymentStatus = data.status,
                      !.paymentData = data,
                      !.pc = "queryOrdersBillcode"]

\* the handler storing a callback without a billing code as unmatched
HandlerEntry_MissingIsUnmatched(i, t, payload) ==
    LET billcode == Trim(JsString(Or(Or(Or(Field(payload, "billcode"),
                                           Field(payload, "billCode")),
                                        Field(payload, "bill_code")), "")))
        data == PaymentData(i, payload, billcode)
    IN IF ~dbAvailable
       THEN Throw(t, "Firebase Admin is not initialised. Set service credentials.")
       ELSE IF Falsy(billcode)
       THEN [t EXCEPT !.paymentData = data, !.pc = "setUnmatched"]
       ELSE [t EXCEPT !.billcode = billcode,
                      !.paymentStatus = data.status,
                      !.paymentData = data,
                      !.pc = "queryOrdersBillcode"]

\* index.js:336-363: from the request to the first await.
HandlerEntry(i, t, payload) ==
    LET billcode == Trim(JsString(Or(Or(Or(Field(payload, "billcode"),
                                           Field(payload, "billCode")),
                                        Field(payload, "bill_code")), "")))
        data == PaymentData(i, payload, billcode)
    IN IF ~dbAvailable
       THEN Throw(t, "Firebase Admin is not initialised. Set service credentials.")
       ELSE IF Falsy(billcode)
       THEN Respond(t, 200, [received |-> TRUE, error |-> "Missing billcode"])
       ELSE [t EXCEPT !.billcode = billcode,
                      !.paymentStatus = data.status,
                      !.paymentData = data,
                      !.pc = "queryOrdersBillcode"]

Receive(i) ==
    /\ Arrives(i)
    /\ \E payload \in Scenario.requests :
          task' = [task EXCEPT ![i] =
                      HandlerEntry(i, [task[i] EXCEPT !.entry = "callback",
                                                      !.payload = payload,
                                                      !.pre = Acknowledged], payload)]
    /\ UNCHANGED <<dbAvailable, scenario, store>>

\* findOrderByBillcode, index.js:167-184
QueryOrdersBillcode(i) ==
    LET t == Did(task[i], <<"query", "orders", "billcode">>)
        keys == Matching(orders, "billcode", t.billcode)
    IN /\ task[i].pc = "queryOrdersBillcode"
       /\ IF keys = {}
          THEN task' = [task EXCEPT ![i] = [t EXCEPT !.pc = "queryOrdersBillCode"]]
          ELSE \E orderId \in keys :
                  task' = [task EXCEPT ![i] =
                              AfterLookup(i, t, OrderObject(orderId, orders[orderId]),
                                          "orders.billcode")]
       /\ UNCHANGED <<dbAvailable, scenario, store>>

\* findOrderByBillcode followed at once by the payload's reference
QueryOrdersBillCode_SkipsPayments(i) ==
    LET t == Did(task[i], <<"query", "orders", "billCode">>)
        keys == Matching(orders, "billCode", t.billcode)
    IN /\ task[i].pc = "queryOrdersBillCode"
       /\ IF keys = {}
          THEN task' = [task EXCEPT ![i] = AfterLookup(i, t, NullObject, "none")]
          ELSE \E orderId \in keys :
                  task' = [task EXCEPT ![i] =
                              AfterLookup(i, t, OrderObject(orderId, orders[orderId]),
                                          "orders.billCode")]
       /\ UNCHANGED <<dbAvailable, scenario, store>>

QueryOrdersBillCode(i) ==
    LET t == Did(task[i], <<"query", "orders", "billCode">>)
        keys == Matching(orders, "billCode", t.billcode)
    IN /\ task[i].pc = "queryOrdersBillCode"
       /\ IF keys = {}
          THEN task' = [task EXCEPT ![i] = [t EXCEPT !.pc = "queryPaymentsBillcode"]]
          ELSE \E orderId \in keys :
                  task' = [task EXCEPT ![i] =
                              AfterLookup(i, t, OrderObject(orderId, orders[orderId]),
                                          "orders.billCode")]
       /\ UNCHANGED <<dbAvailable, scenario, store>>

\* findOrderFromPayments, index.js:190-209: a payment found by `via`
PaymentFound(i, t, payment, via) ==
    IF Falsy(Field(payment, "orderId"))
    THEN AfterLookup(i, t, NullObject, "none")
    ELSE [t EXCEPT !.payment = payment, !.via = via, !.pc = "readPaymentOrder"]

QueryPaymentsBillcode(i) ==
    LET t == Did(task[i], <<"query", "payments", "billcode">>)
        keys == Matching(payments, "billcode", t.billcode)
    IN /\ task[i].pc = "queryPaymentsBillcode"
       /\ IF keys = {}
          THEN task' = [task EXCEPT ![i] = [t EXCEPT !.pc = "queryPaymentsBillCode"]]
          ELSE \E paymentId \in keys :
                  task' = [task EXCEPT ![i] =
                              PaymentFound(i, t, payments[paymentId], "payments.billcode")]
       /\ UNCHANGED <<dbAvailable, scenario, store>>

QueryPaymentsBillCode(i) ==
    LET t == Did(task[i], <<"query", "payments", "billCode">>)
        keys == Matching(payments, "billCode", t.billcode)
    IN /\ task[i].pc = "queryPaymentsBillCode"
       /\ IF keys = {}
          THEN task' = [task EXCEPT ![i] = AfterLookup(i, t, NullObject, "none")]
          ELSE \E paymentId \in keys :
                  task' = [task EXCEPT ![i] =
                              PaymentFound(i, t, payments[paymentId], "payments.billCode")]
       /\ UNCHANGED <<dbAvailable, scenario, store>>

\* findOrderFromPayments, index.js:208-220
ReadPaymentOrder(i) ==
    LET orderId == task[i].payment.orderId
        t == Did(task[i], <<"read", "orders", orderId>>)
        order == IF orderId \in DOMAIN orders
                 THEN OrderObject(orderId, orders[orderId])
                 ELSE [id |-> orderId, userId |-> Or(Field(t.payment, "userId"), NULL)]
    IN /\ task[i].pc = "readPaymentOrder"
       /\ task' = [task EXCEPT ![i] = AfterLookup(i, t, order, t.via)]
       /\ UNCHANGED <<dbAvailable, scenario, store>>

\* index.js:380-402: the order named by the payload's order reference
ReadPayloadOrder(i) ==
    LET orderId == task[i].orderId
        t == Did(task[i], <<"read", "orders", orderId>>)
        orderData == orders[orderId]
        userId == Or(Or(Or(Or(Field(orderData, "userId"), Field(orderData, "userID")),
                           Field(orderData, "customerId")),
                        Field(orderData, "customerID")), NULL)
    IN /\ task[i].pc = "readPayloadOrder"
       /\ task' = [task EXCEPT ![i] =
                      IF orderId \notin DOMAIN orders
                      THEN Decide(i, t)
                      ELSE IF Falsy(Field(orderData, "billcode"))
                              /\ Falsy(Field(orderData, "billCode"))
                      THEN [t EXCEPT !.userId = userId, !.pc = "backfillBillcode"]
                      ELSE Decide(i, [t EXCEPT !.userId = userId])]
       /\ UNCHANGED <<dbAvailable, scenario, store>>

\* index.js:391-394
BackfillBillcode(i) ==
    LET t == Did(task[i], <<"update", "orders", task[i].orderId, "billcode">>)
    IN /\ task[i].pc = "backfillBillcode"
       /\ orders' = UpdateDoc(orders, t.orderId,
                              [billcode |-> t.billcode, billCode |-> t.billcode])
       /\ task' = [task EXCEPT ![i] = Decide(i, t)]
       /\ UNCHANGED <<dbAvailable, scenario, payments, payments_by_order, payments_unmatched>>

\* index.js:413 and 426-430: the argument of saveUnmatchedPayment
UnmatchedData(t) ==
    IF Falsy(t.orderId)
    THEN Spread(t.paymentData, [note |-> "Order ID not resolved"])
    ELSE Spread(t.paymentData, [orderId |-> t.orderId,
                                note |-> "Order found but userId missing"])

\* saveUnmatchedPayment handing its argument to set() as it came
CleanData_Identity(paymentData) == paymentData

\* index.js:280-285
CleanData(paymentData) ==
    [k \in {x \in DOMAIN paymentData :
               x \in NestedKeys \/ paymentData[x] \notin {UNDEFINED, NULL}} |->
        paymentData[k]]

UnmatchedId(i, paymentData) ==
    Or(Or(Field(paymentData, "transaction_id"), Field(paymentData, "billcode")),
       GeneratedUnmatchedIds[i])

\* the acknowledgement of an unmatched payment without its warning
UnmatchedResponse_NoWarning(t) == [received |-> TRUE, saved |-> FALSE]

\* index.js:414-418 and 431-435
UnmatchedResponse(t) ==
    IF Falsy(t.orderId)
    THEN [received |-> TRUE, saved |-> FALSE,
          warning |-> <<"Order ID not resolved. Payment stored in payments_unmatched.">>]
    ELSE [received |-> TRUE, saved |-> FALSE,
          warning |-> <<"Order ", t.orderId,
                        " found but userId is missing. Payment stored in payments_unmatched with order reference.">>]

\* saveUnmatchedPayment, index.js:272-293, and the acknowledgement after it
SetUnmatched(i) ==
    LET data == UnmatchedData(task[i])
        paymentId == UnmatchedId(i, data)
        value == Spread(CleanData(data), [storedAt |-> Now(i)])
        t == Did(task[i], <<"set", "payments_unmatched", paymentId>>)
    IN /\ task[i].pc = "setUnmatched"
       /\ IF Storable(value)
          THEN /\ payments_unmatched' = SetDoc(payments_unmatched, paymentId, value)
               /\ task' = [task EXCEPT ![i] = Respond(t, 200, UnmatchedResponse(t))]
          ELSE /\ payments_unmatched' = payments_unmatched
               /\ task' = [task EXCEPT ![i] =
                              Throw(Did(t, <<"raised", "setUnmatched">>),
                                    "set failed: invalid value")]
       /\ UNCHANGED <<dbAvailable, scenario, orders, payments, payments_by_order>>

\* savePaymentRecord, index.js:256-259
SetPayment(i) ==
    LET record == task[i].record
        t == Did(task[i], <<"set", "payments", record.paymentId>>)
    IN /\ task[i].pc = "setPayment"
       /\ IF Storable(record)
          THEN /\ payments' = SetDoc(payments, record.paymentId, record)
               /\ task' = [task EXCEPT ![i] = [t EXCEPT !.pc = "setByOrder"]]
          ELSE /\ payments' = payments
               /\ task' = [task EXCEPT ![i] =
                              Throw(Did(t, <<"raised", "setPayment">>),
                                    "set failed: invalid value")]
       /\ UNCHANGED <<dbAvailable, scenario, orders, payments_by_order, payments_unmatched>>

\* index.js:260-266
IndexEntry(record) ==
    [paymentId |-> record.paymentId,
     status |-> record.status,
     amount |-> record.amount,
     createdAt |-> record.createdAt,
     updatedAt |-> record.updatedAt]

\* index.js:441-450 and 452-461: the `extra` of updateOrderStatus
StatusExtra(i, t, status) ==
    [paymentId |-> t.record.paymentId,
     billcode |-> t.billcode,
     paymentDetails |->
         Spread([transactionId |-> t.record.transactionId,
                 method |-> t.record.paymentMethod,
                 amount |-> t.record.amount],
                IF status = "success" THEN [confirmedAt |-> Now(i)]
                                      ELSE [failedAt |-> Now(i)])]

\* index.js:464-470
SuccessResponse(t) ==
    [received |-> TRUE,
     success |-> TRUE,
     orderId |-> t.orderId,
     paymentId |-> t.record.paymentId,
     status |-> t.record.status]

\* the handler updating the order whatever the status
AfterSave_AlwaysUpdates(t) ==
    IF t.entry # "callback"
    THEN [t EXCEPT !.pc = "returned"]
    ELSE [t EXCEPT !.pc = "updateOrder"]

\* index.js:440-470 with updateOrderStatus:296-298: what follows
\* savePaymentRecord, up to the next await or the response.
AfterSave(t) ==
    IF t.entry # "callback"
    THEN [t EXCEPT !.pc = "returned"]
    ELSE IF normaliseStatus(t.paymentStatus) \in {"success", "failed"}
            /\ dbAvailable /\ ~Falsy(t.orderId)
    THEN [t EXCEPT !.pc = "updateOrder"]
    ELSE Respond(t, 200, SuccessResponse(t))

\* the handler acknowledging as soon as the payment is saved
SetByOrder_AcknowledgesFirst(i) ==
    LET record == task[i].record
        t == Did(task[i], <<"set", "payments_by_order", record.orderId, record.paymentId>>)
    IN /\ task[i].pc = "setByOrder"
       /\ payments_by_order' = SetDoc(payments_by_order,
                                      <<record.orderId, record.paymentId>>,
                                      IndexEntry(record))
       /\ task' = [task EXCEPT ![i] =
                      IF t.entry # "callback"
                      THEN [t EXCEPT !.pc = "returned"]
                      ELSE Respond(t, 200, SuccessResponse(t))]
       /\ UNCHANGED <<dbAvailable, scenario, orders, payments, payments_unmatched>>

\* savePaymentRecord, index.js:260-269
SetByOrder(i) ==
    LET record == task[i].record
        t == Did(task[i], <<"set", "payments_by_order", record.orderId, record.paymentId>>)
    IN /\ task[i].pc = "setByOrder"
       /\ payments_by_order' = SetDoc(payments_by_order,
                                      <<record.orderId, record.paymentId>>,
                                      IndexEntry(record))
       /\ task' = [task EXCEPT ![i] = AfterSave(t)]
       /\ UNCHANGED <<dbAvailable, scenario, orders, payments, payments_unmatched>>

\* updateOrderStatus writing the canonical status unmapped
StatusUpdate_Unmapped(i, status, extra) ==
    Spread([status |-> status, adminStatus |-> status, updatedAt |-> Now(i)], extra)

\* updateOrderStatus, index.js:310-318: the fields of the update
StatusUpdate(i, status, extra) ==
    LET newStatus == Or(ORDER_STATUS_MAP(status), status)
        adminStatus == Or(adminStatusMap(newStatus), newStatus)
    IN Spread([status |-> newStatus, adminStatus |-> adminStatus, updatedAt |-> Now(i)],
              extra)

\* updateOrderStatus, index.js:299-320, and the acknowledgement, 464-470
UpdateOrder(i) ==
    LET t == Did(task[i], <<"update", "orders", task[i].orderId, "status">>)
        status == normaliseStatus(t.paymentStatus)
    IN /\ task[i].pc = "updateOrder"
       /\ orders' = UpdateDoc(orders, t.orderId,
                              StatusUpdate(i, status, StatusExtra(i, t, status)))
       /\ task' = [task EXCEPT ![i] = Respond(t, 200, SuccessResponse(t))]
       /\ UNCHANGED <<dbAvailable, scenario, payments, payments_by_order, payments_unmatched>>

StoreOperations ==
    {"queryOrdersBillcode", "queryOrdersBillCode", "queryPaymentsBillcode",
     "queryPaymentsBillCode", "readPaymentOrder", "readPayloadOrder",
     "backfillBillcode", "setUnmatched", "setPayment", "setByOrder", "updateOrder"}

\* The pending store operation rejects.  Inside the try of index.js:380-401
\* the rejection is logged and the handler goes on; anywhere else it reaches
\* the handler's catch.  A run has rejections in one of its callbacks only.
StoreRaises(i) ==
    LET t == Did(task[i], <<"raised", task[i].pc>>)
    IN /\ task[i].pc \in StoreOperations
       /\ \A j \in Calls \ {i} : \A op \in task[j].ops : op[1] # "raised"
       /\ task' = [task EXCEPT ![i] =
                      IF t.pc \in {"readPayloadOrder", "backfillBillcode"}
                      THEN Decide(i, t)
                      ELSE Throw(t, "store operation failed")]
       /\ UNCHANGED <<dbAvailable, scenario, store>>

Next ==
    \E i \in Calls :
        \/ Receive(i)
        \/ QueryOrdersBillcode(i)
        \/ QueryOrdersBillCode(i)
        \/ QueryPaymentsBillcode(i)
        \/ QueryPaymentsBillCode(i)
        \/ ReadPaymentOrder(i)
        \/ ReadPayloadOrder(i)
        \/ BackfillBillcode(i)
        \/ SetUnmatched(i)
        \/ SetPayment(i)
        \/ SetByOrder(i)
        \/ UpdateOrder(i)
        \/ StoreRaises(i)

Spec == Init /\ [][Next]_vars

\* Callback i awaits the store operation op (one of the awaits of
\* index.js:363-460).
Awaits(i, op) == task[i].pc = op

\* Every store operation eventually returns or raises: no callback awaits one
\* operation forever. Each of the actions above leaves its await, so this is
\* weak fairness of the store's answer to callback i, stated on the awaits.
StoreAnswers(i) == \A op \in StoreOperations : []<>(~Awaits(i, op))

\* The stores SpecLive starts from; the paths through the payload's order
\* reference and the backfill are taken from LegacyStore.
LiveScenarios == {"known code", "legacy names", "malformed", "order gone", "earlier payment"}

InitLive == Init /\ scenario \in LiveScenarios

\* Arrivals are not forced; the store answers every operation.
SpecLive == InitLive /\ [][Next]_vars /\ \A i \in Calls : StoreAnswers(i)

-----------------------------------------------------------------------------
(* savePaymentRecord called on its own, index.js:223-270 *)

RecorderPaymentData ==
    {[transaction_id |-> "TX1", paymentId |-> "P7", billcode |-> "BC1", raw |-> NullObject],
     [paymentId |-> "P7", billcode |-> "BC1", status |-> "failed", raw |-> NullObject],
     [raw |-> NullObject]}

CallSavePaymentRecord(i) ==
    /\ Arrives(i)
    /\ \E paymentData \in RecorderPaymentData,
          owner \in {<<NULL, "u1">>, <<"ORD1", UNDEFINED>>, <<"ORD1", "u1">>} :
          task' = [task EXCEPT ![i] =
                      savePaymentRecord(i, [task[i] EXCEPT !.entry = "savePaymentRecord",
                                                           !.paymentData = paymentData,
                                                           !.orderId = owner[1],
                                                           !.userId = owner[2],
                                                           !.pre = Acknowledged])]
    /\ UNCHANGED <<dbAvailable, scenario, store>>

NextRecorder ==
    \/ Next
    \/ \E i \in Calls : CallSavePaymentRecord(i)

SpecRecorder == Init /\ [][NextRecorder]_vars

-----------------------------------------------------------------------------
(* GET /payment/callback, index.js:481-497.  The values of req.query are    *)
(* written as sequences of characters, the redirect URL as the sequence of  *)
(* the pieces it is concatenated from.                                       *)

ANDROID_DEEP_LINK == "tintaprinting://payment"

\* the escape of a character that is not a letter, a digit or one of -_.!~*'()
EncodeChar(c) ==
    CASE c = " " -> <<"%", "2", "0">>
      [] c = "&" -> <<"%", "2", "6">>
      [] c = "=" -> <<"%", "3", "D">>
      [] c = "/" -> <<"%", "2", "F">>
      [] c = "?" -> <<"%", "3", "F">>
      [] c = "#" -> <<"%", "2", "3">>
      [] c = "%" -> <<"%", "2", "5">>
      [] OTHER -> <<c>>

\* encodeURIComponent left out
encodeURIComponent_Identity(cs) == cs

RECURSIVE encodeURIComponent(_)
encodeURIComponent(cs) ==
    IF cs = <<>> THEN <<>> ELSE EncodeChar(Head(cs)) \o encodeURIComponent(Tail(cs))

\* a parameter of the query that is there and not the empty string
Given(query, k) == k \in DOMAIN query /\ query[k] # <<>>

\* index.js:484-490
RedirectUrl(query) ==
    LET billcode == IF Given(query, "billcode") THEN query.billcode ELSE <<>>
        base == <<ANDROID_DEEP_LINK, "?billcode=">> \o encodeURIComponent(billcode)
        withStatus == IF Given(query, "status")
                      THEN base \o <<"&status=">> \o encodeURIComponent(query.status)
                      ELSE base
    IN IF Given(query, "transaction_id")
       THEN withStatus \o <<"&transactionId=">> \o encodeURIComponent(query.transaction_id)
       ELSE withStatus

\* req.query
Queries ==
    {[k \in keys |-> CASE k = "billcode" -> billcode
                       [] k = "status" -> status
                       [] k = "transaction_id" -> transaction] :
        keys \in SUBSET {"billcode", "status", "transaction_id"},
        billcode \in {<<"B", "C", "9">>, <<"B", " ", "&", "9">>},
        status \in {<<"f", "a", "i", "l", "e", "d">>, <<>>},
        transaction \in {<<"T", "/", "1", "=", "?">>}}

\* res.redirect(url)
GetCallback(i) ==
    /\ Arrives(i)
    /\ \E query \in Queries :
          task' = [task EXCEPT ![i] =
                      Respond([task[i] EXCEPT !.entry = "redirect",
                                              !.payload = query,
                                              !.pre = Acknowledged],
                              302, [location |-> RedirectUrl(query)])]
    /\ UNCHANGED <<dbAvailable, scenario, store>>

NextRedirect == \E i \in Calls : GetCallback(i)

SpecRedirect == Init /\ [][NextRedirect]_vars

-----------------------------------------------------------------------------
(* Properties *)

Done(i) == task[i].pc = "done"

Response(i) == task[i].res[1]

\* the handler of i met an exception that reached its catch
Raised(i) ==
    \E op \in task[i].ops :
        op[1] = "raised" /\ op[2] \notin {"readPayloadOrder", "backfillBillcode"}

\* some store operation of i raised
StoreFailedFor(i) == \E op \in task[i].ops : op[1] = "raised"

\* i was acknowledged with the success response
Recorded(i) ==
    /\ Done(i)
    /\ Response(i).code = 200
    /\ "success" \in DOMAIN Response(i).body

\* i is the only invocation so far
Only(i) == \A j \in Calls \ {i} : task[j].pc = "idle"

Writes(i) == {op \in task[i].ops : op[1] \in {"set", "update"}}

\* C1: every record written under payments/ has a non-empty orderId and a
\* non-empty userId, and a call of savePaymentRecord with an absent orderId or
\* userId throws at once, having written nothing to the store.
C1_PaymentsHaveOwner ==
    [][/\ \A p \in DOMAIN payments' :
             (p \notin DOMAIN payments \/ payments'[p] # payments[p])
                 => /\ ~Falsy(Field(payments'[p], "orderId"))
                    /\ ~Falsy(Field(payments'[p], "userId"))
       /\ \A i \in Calls :
             (/\ task[i].pc = "idle"
              /\ task'[i].entry = "savePaymentRecord"
              /\ Falsy(task'[i].orderId) \/ Falsy(task'[i].userId))
                 => /\ task'[i].pc = "threw"
                    /\ task'[i].error \in {"Firebase database is not available",
                                          "Order ID is required to save payment",
                                          "User ID is required to save payment"}
                    /\ task'[i].ops = {}
                    /\ store' = store]_vars

C1_Witness ==
    \E i, j \in Calls :
        /\ task[i].pc = "threw"
        /\ task[i].error = "User ID is required to save payment"
        /\ task[j].pc \in {"returned", "done"}
        /\ task[j].record # NullObject
        /\ task[j].record.paymentId \in DOMAIN payments
        /\ payments[task[j].record.paymentId].userId = task[j].userId

\* C2: a callback is answered 200 on every reconciliation outcome and 500
\* exactly when the store is unavailable at entry or a store operation raised
\* into the handler's catch; with the store unavailable the 500 is sent
\* without any store operation.
C2_ResponseCodes ==
    \A i \in Calls :
        Done(i) =>
            /\ Len(task[i].res) = 1
            /\ Response(i).code \in {200, 500}
            /\ Response(i).code = 500 <=> (~dbAvailable \/ Raised(i))
            /\ ~dbAvailable => task[i].ops = {} /\ store = <<Scenario.store.orders,
                                                            Scenario.store.payments,
                                                            Scenario.store.payments_by_order,
                                                            NullObject>>

C2_Witness ==
    \E i, j \in Calls :
        /\ Done(i) /\ Response(i).code = 500 /\ Raised(i)
        /\ Done(j) /\ Response(j).code = 200 /\ Falsy(task[j].billcode)

C2_WitnessUnavailable ==
    \E i \in Calls : Done(i) /\ ~dbAvailable /\ Response(i).code = 500

\* the two calls recorded the same payload for the same payment and order,
\* j after i was acknowledged, and nothing else has run since j arrived
RecordedTwice(i, j) ==
    /\ i # j
    /\ Recorded(i) /\ Recorded(j)
    /\ i \in task[j].pre
    /\ task[i].paymentData.raw = task[j].paymentData.raw
    /\ task[i].record.paymentId = task[j].record.paymentId
    /\ task[i].orderId = task[j].orderId
    /\ \A k \in Calls \ {i, j} : task[k].pc = "idle" \/ k \in task[j].pre

\* C3: after the same payload was recorded twice in sequence there is one
\* record at payments/{paymentId} and one entry at
\* payments_by_order/{orderId}/{paymentId} from those calls, both with the
\* second call's values, and the order's status is the second call's.
C3_SecondWriteWins ==
    \A i, j \in Calls :
        RecordedTwice(i, j) =>
            LET record == task[j].record
                status == normaliseStatus(task[j].paymentStatus)
            IN /\ {p \in DOMAIN payments :
                      Field(payments[p], "updatedAt") \in {Now(i), Now(j)}}
                      = {record.paymentId}
               /\ {k \in DOMAIN payments_by_order :
                      payments_by_order[k].updatedAt \in {Now(i), Now(j)}}
                      = {<<record.orderId, record.paymentId>>}
               /\ payments[record.paymentId] = StripNull(record)
               /\ payments[record.paymentId].updatedAt = Now(j)
               /\ payments_by_order[<<record.orderId, record.paymentId>>]
                      = IndexEntry(record)
               /\ status \in {"success", "failed"} =>
                      /\ orders[record.orderId].status = ORDER_STATUS_MAP(status)
                      /\ orders[record.orderId].updatedAt = Now(j)

C3_Witness ==
    \E i, j \in Calls :
        /\ RecordedTwice(i, j)
        /\ normaliseStatus(task[j].paymentStatus) = "success"
        /\ payments[task[j].record.paymentId].updatedAt = Now(j)

\* two overlapping calls recorded the same payment for the same order, one as
\* success and one as failed, and no other call has arrived
Raced(i, j) ==
    /\ i # j
    /\ Recorded(i) /\ Recorded(j)
    /\ i \notin task[j].pre /\ j \notin task[i].pre
    /\ task[i].record.paymentId = task[j].record.paymentId
    /\ task[i].orderId = task[j].orderId
    /\ {task[i].record.status, task[j].record.status} = {"success", "failed"}
    /\ \A k \in Calls \ {i, j} : task[k].pc = "idle"

\* The last step of a success or failed callback is its order update, so the
\* call named by the order's updatedAt is the one that completed last.
CompletedLast(w, orderId) == orders[orderId].updatedAt = Now(w)

\* C4 as claimed: after a race the payment record and the order status both
\* reflect the callback whose handling completed last.
C4_LaterCallbackWinsBoth ==
    \A i, j \in Calls :
        Raced(i, j) =>
            \E w \in {i, j} :
                /\ CompletedLast(w, task[w].orderId)
                /\ payments[task[w].record.paymentId].status = task[w].record.status
                /\ orders[task[w].orderId].status = ORDER_STATUS_MAP(task[w].record.status)

\* C4 as amended: after a race the order status is that of the callback whose
\* order update was applied last, and the payment record and the index entry
\* are each the complete write of one of the two callbacks, not necessarily
\* the same one.
C4_LastWritePerLocation ==
    \A i, j \in Calls :
        Raced(i, j) =>
            LET paymentId == task[i].record.paymentId
                orderId == task[i].orderId
            IN /\ \E w \in {i, j} :
                     /\ CompletedLast(w, orderId)
                     /\ orders[orderId].status = ORDER_STATUS_MAP(task[w].record.status)
                     /\ orders[orderId].adminStatus
                            = adminStatusMap(ORDER_STATUS_MAP(task[w].record.status))
               /\ \E v \in {i, j} : payments[paymentId] = StripNull(task[v].record)
               /\ \E u \in {i, j} :
                     payments_by_order[<<orderId, paymentId>>] = IndexEntry(task[u].record)

\* a race after which the payment record says one thing and the order another
C4_Witness ==
    \E i, j \in Calls :
        /\ Raced(i, j)
        /\ CompletedLast(i, task[i].orderId)
        /\ payments[task[i].record.paymentId].status = task[j].record.status
        /\ orders[task[i].orderId].status = ORDER_STATUS_MAP(task[i].record.status)

\* the table of the specification, keys compared without regard to case
CanonicalStatus(status) ==
    IF Falsy(status) THEN "pending"
    ELSE LET key == ToLowerCase(JsString(status))
         IN CASE key \in {"1", "success"} -> "success"
              [] key \in {"2", "pending"} -> "pending"
              [] key \in {"3", "failed", "failure", "cancelled"} -> "failed"
              [] OTHER -> "pending"

\* C5: normaliseStatus returns, for every input, the value the table gives,
\* and pending for every input that is not in the table.
C5_NormaliseStatusTotal ==
    \A i \in Calls :
        task[i].record # NullObject =>
            /\ task[i].record.status \in {"success", "pending", "failed"}
            /\ task[i].record.status = CanonicalStatus(task[i].paymentData.status)

\* i was handled from its arrival to now with no other call in flight
RanAlone(i) == \A k \in Calls \ {i} : task[k].pc = "idle" \/ k \in task[i].pre

\* C6: after a callback that resolved an order with a user and whose
\* canonical status is success (failed) was acknowledged, payments/{paymentId}
\* holds that status, orders/{orderId} has status PAID and adminStatus
\* approved (PAYMENT_FAILED and pending), and the 200 response is
\* {received, success, orderId, paymentId, status} with the stored status.
C6_RecordedOutcome ==
    \A i \in Calls :
        LET status == CanonicalStatus(task[i].paymentData.status)
            orderId == task[i].orderId
            paymentId == task[i].record.paymentId
        IN (Recorded(i) /\ RanAlone(i) /\ status \in {"success", "failed"}) =>
               /\ payments[paymentId].status = status
               /\ payments[paymentId].orderId = orderId
               /\ status = "success" =>
                      /\ orders[orderId].status = "PAID"
                      /\ orders[orderId].adminStatus = "approved"
               /\ status = "failed" =>
                      /\ orders[orderId].status = "PAYMENT_FAILED"
                      /\ orders[orderId].adminStatus = "pending"
               /\ Response(i).code = 200
               /\ Response(i).body = [received |-> TRUE,
                                      success |-> TRUE,
                                      orderId |-> orderId,
                                      paymentId |-> paymentId,
                                      status |-> payments[paymentId].status]

\* a failed callback handled after a successful one was acknowledged
C6_Witness ==
    \E i, j \in Calls :
        /\ Recorded(i) /\ RanAlone(i)
        /\ CanonicalStatus(task[i].paymentData.status) = "failed"
        /\ orders[task[i].orderId].status = "PAYMENT_FAILED"
        /\ j \in task[i].pre
        /\ Recorded(j)
        /\ CanonicalStatus(task[j].paymentData.status) = "success"
        /\ Response(j).body.status = "success"

\* the billing code of i is on no order and no payment of the store the run
\* began with, and the payload of i names no order
Unknown(i) ==
    /\ task[i].entry = "callback"
    /\ ~Falsy(task[i].billcode)
    /\ \A child \in {"billcode", "billCode"} :
          /\ Matching(Scenario.store.orders, child, task[i].billcode) = {}
          /\ Matching(Scenario.store.payments, child, task[i].billcode) = {}
    /\ Falsy(Field(task[i].paymentData, "order_id"))

\* C7: a callback whose billing code is on no order and no earlier payment
\* and which carries no order reference writes one document under
\* payments_unmatched/, nothing under payments/, payments_by_order/ or
\* orders/, and is answered 200 with {received: true, saved: false, warning}.
C7_UnknownCodeGoesToUnmatched ==
    \A i \in Calls :
        (Only(i) /\ Unknown(i) /\ Done(i) /\ ~StoreFailedFor(i)) =>
            /\ orders = Scenario.store.orders
            /\ payments = Scenario.store.payments
            /\ payments_by_order = Scenario.store.payments_by_order
            /\ Cardinality(DOMAIN payments_unmatched) = 1
            /\ \E id \in DOMAIN payments_unmatched :
                  /\ Writes(i) = {<<"set", "payments_unmatched", id>>}
                  /\ payments_unmatched[id].billcode = task[i].billcode
            /\ Response(i).code = 200
            /\ DOMAIN Response(i).body = {"received", "saved", "warning"}
            /\ Response(i).body.received = TRUE
            /\ Response(i).body.saved = FALSE

C7_Witness ==
    \E i \in Calls :
        /\ Only(i) /\ Unknown(i) /\ Done(i) /\ ~StoreFailedFor(i)
        /\ DOMAIN payments_unmatched = {task[i].billcode}
        /\ Response(i).body.saved = FALSE

\* the resolution of i ended with an order identifier and no user identifier
OrderWithoutUser(i) ==
    /\ task[i].entry = "callback"
    /\ task[i].pc \in {"setUnmatched", "done"}
    /\ ~Falsy(task[i].orderId)
    /\ Falsy(task[i].userId)

C9_PendingLeavesOrderStatus ==
    [][/\ \A o \in DOMAIN orders' :
             (\/ o \notin DOMAIN orders
              \/ Field(orders'[o], "status") # Field(orders[o], "status")
              \/ Field(orders'[o], "adminStatus") # Field(orders[o], "adminStatus"))
                 => \E i \in Calls :
                        /\ task[i].pc = "updateOrder"
                        /\ task'[i].pc = "done"
                        /\ task[i].orderId = o
                        /\ CanonicalStatus(task[i].paymentData.status)
                               \in {"success", "failed"}
       /\ \A i \in Calls :
             (Recorded(i) /\ CanonicalStatus(task[i].paymentData.status) = "pending")
                 => /\ <<"set", "payments", task[i].record.paymentId>> \in Writes(i)
                    /\ \A op \in Writes(i) : op[2] # "orders"]_vars

\* a pending callback recorded after a paid one leaves the order paid
C9_Witness ==
    \E i, j \in Calls :
        /\ Recorded(i) /\ RanAlone(i)
        /\ CanonicalStatus(task[i].paymentData.status) = "pending"
        /\ j \in task[i].pre
        /\ Recorded(j)
        /\ task[j].orderId = task[i].orderId
        /\ payments[task[i].record.paymentId].status = "pending"
        /\ orders[task[i].orderId].status = "PAID"
        /\ orders[task[i].orderId].updatedAt = Now(j)

\* C10: the keys under orders/ are those the run began with.
C10_OrderKeysUnchanged ==
    DOMAIN orders = DOMAIN Scenario.store.orders

\* the billing codes order o carries, under either spelling
CodesOf(coll, o) ==
    {Field(coll[o], child) : child \in {"billcode", "billCode"}}
        \ {UNDEFINED, NULL, ""}

\* C11: every billing code is on one order at most, under either spelling.
C11_BillcodeOnOneOrder ==
    \A o1, o2 \in DOMAIN orders :
        CodesOf(orders, o1) \cap CodesOf(orders, o2) # {} => o1 = o2

\* the step of i is the return of the store operation i was waiting for
Returns(i, pc) ==
    /\ task[i].pc = pc
    /\ task'[i].pc # pc
    /\ <<"raised", pc>> \notin task'[i].ops

\* the resolution of i ended in this step with an order among ids, found by via
ResolvedBy(i, ids, via) ==
    /\ task'[i].orderId \in ids
    /\ task'[i].via = via
    /\ task'[i].pc \in {"setPayment", "setUnmatched"}

\* what the handler takes as the user of an order found by billing code
UserOf(order) ==
    Or(Or(Or(Field(order, "userId"), Field(order, "userID")), Field(order, "customerId")),
       NULL)

\* the query of payments by child found the payments ids
PaymentStrategy(i, ids, via, next) ==
    IF ids = {}
    THEN task'[i].pc = next \/ (next = "none" /\ task'[i].pc \in {"readPayloadOrder",
                                                                  "setUnmatched"})
    ELSE \E p \in ids :
            IF Falsy(Field(payments[p], "orderId"))
            THEN task'[i].pc \in {"readPayloadOrder", "setUnmatched"}
            ELSE /\ task'[i].pc = "readPaymentOrder"
                 /\ task'[i].payment = payments[p]
                 /\ task'[i].via = via

\* C12: the resolver looks for the order by billcode, then by billCode, then
\* for a payment by billcode, then by billCode, each only when the one before
\* found nothing, and the first that finds something decides; a payment
\* gives its order, or {id, userId} of the payment when the order is gone;
\* the reference of the payload is read only after all of them.
C12_ResolverOrder ==
    [][\A i \in Calls :
          LET code == task[i].billcode
              byCode(coll, child) == Matching(coll, child, code)
          IN /\ Returns(i, "queryOrdersBillcode") =>
                    IF byCode(orders, "billcode") # {}
                    THEN ResolvedBy(i, byCode(orders, "billcode"), "orders.billcode")
                    ELSE task'[i].pc = "queryOrdersBillCode"
             /\ Returns(i, "queryOrdersBillCode") =>
                    IF byCode(orders, "billCode") # {}
                    THEN ResolvedBy(i, byCode(orders, "billCode"), "orders.billCode")
                    ELSE task'[i].pc = "queryPaymentsBillcode"
             /\ Returns(i, "queryPaymentsBillcode") =>
                    PaymentStrategy(i, byCode(payments, "billcode"), "payments.billcode",
                                    "queryPaymentsBillCode")
             /\ Returns(i, "queryPaymentsBillCode") =>
                    PaymentStrategy(i, byCode(payments, "billCode"), "payments.billCode",
                                    "none")
             /\ Returns(i, "readPaymentOrder") =>
                    LET orderId == task[i].payment.orderId
                    IN /\ ResolvedBy(i, {orderId}, task[i].via)
                       /\ task'[i].userId =
                              IF orderId \in DOMAIN orders
                              THEN UserOf(orders[orderId])
                              ELSE Or(Field(task[i].payment, "userId"), NULL)
             /\ (task[i].pc # "readPayloadOrder" /\ task'[i].pc = "readPayloadOrder") =>
                    /\ task[i].pc \in {"queryPaymentsBillcode", "queryPaymentsBillCode"}
                    /\ task'[i].via = "payload.order_id"]_vars

\* one callback resolved by an earlier payment under the legacy spelling and
\* one by the reference of its payload, in the same run
C12_Witness ==
    \E i, j \in Calls :
        /\ Done(i) /\ task[i].via = "payments.billCode" /\ Recorded(i)
        /\ Done(j) /\ task[j].via = "payload.order_id"
        /\ <<"query", "payments", "billCode">> \in task[j].ops

\* a callback resolved by an order that carries the legacy spelling only
C12_WitnessLegacy ==
    \E i \in Calls :
        /\ Recorded(i)
        /\ task[i].via = "orders.billCode"
        /\ "billcode" \notin DOMAIN Scenario.store.orders[task[i].orderId]

\* a callback resolved by the stand-in for an order that is gone
C12_WitnessStandIn ==
    \E i \in Calls :
        /\ Recorded(i)
        /\ task[i].via = "payments.billcode"
        /\ task[i].orderId \notin DOMAIN Scenario.store.orders
        /\ task[i].userId = "u1"

\* no field of the stored document, nor of an object nested in it, is null or
\* undefined
NoNullField(doc) ==
    \A k \in DOMAIN doc :
        IF k \in NestedKeys
        THEN \A n \in DOMAIN doc[k] : doc[k][n] \notin {NULL, UNDEFINED}
        ELSE doc[k] \notin {NULL, UNDEFINED}

\* C13: no document under payments_unmatched/ has a field that is null or
\* undefined, and set() never refuses the value saveUnmatchedPayment hands it,
\* whatever fields of the payload are null or missing.
C13_UnmatchedHasNoNull ==
    /\ \A id \in DOMAIN payments_unmatched : NoNullField(payments_unmatched[id])
    /\ \A i \in Calls :
          <<"set", "payments_unmatched", UnmatchedId(i, UnmatchedData(task[i]))>>
              \in task[i].ops
              => task[i].error # "set failed: invalid value"

\* an unmatched payment stored for a payload with a null field and missing ones
C13_Witness ==
    \E i \in Calls :
        /\ Done(i) /\ Response(i).code = 200 /\ RanAlone(i)
        /\ "saved" \in DOMAIN Response(i).body
        /\ Field(task[i].paymentData.raw, "signature") = NULL
        /\ task[i].paymentData.amount = UNDEFINED
        /\ \E id \in DOMAIN payments_unmatched :
              /\ <<"set", "payments_unmatched", id>> \in Writes(i)
              /\ DOMAIN payments_unmatched[id] =
                     {"billcode", "status", "payment_method", "timestamp", "order_id",
                      "raw", "note", "storedAt"}
              /\ DOMAIN payments_unmatched[id].raw = {"bill_code", "statuscode", "order_id"}

Present(v) == v \notin {UNDEFINED, NULL, ""}

\* the identifier the priority of the specification gives the payment of i
ExpectedPaymentId(i) ==
    LET data == task[i].paymentData
    IN CASE Present(Field(data, "transaction_id")) -> data.transaction_id
         [] Present(Field(data, "paymentId")) -> data.paymentId
         [] Present(Field(data, "billcode")) -> data.billcode
         [] OTHER -> GeneratedPayIds[i]

\* C14: the key of payments/ and of payments_by_order/ is the transaction
\* id, else the payment id given, else the billing code, else an identifier
\* generated from the time, and is never empty.
C14_PaymentIdPriority ==
    \A i \in Calls :
        task[i].record # NullObject =>
            /\ task[i].record.paymentId = ExpectedPaymentId(i)
            /\ Present(task[i].record.paymentId)
            /\ \A op \in Writes(i) :
                  /\ op[2] = "payments" => op[3] = ExpectedPaymentId(i)
                  /\ op[2] = "payments_by_order" =>
                         op[3] = task[i].orderId /\ op[4] = ExpectedPaymentId(i)
            /\ (task[i].pc \in {"setByOrder", "updateOrder", "returned"}
                    \/ Recorded(i)) =>
                   ExpectedPaymentId(i) \in DOMAIN payments
            /\ (task[i].pc \in {"updateOrder", "returned"} \/ Recorded(i)) =>
                   <<task[i].orderId, ExpectedPaymentId(i)>> \in DOMAIN payments_by_order

\* one call without any identifier stored under a generated one, and one with
\* a payment id and a billing code stored under the payment id
C14_Witness ==
    \E i, j \in Calls :
        /\ task[i].pc = "returned"
        /\ DOMAIN task[i].paymentData = {"raw"}
        /\ GeneratedPayIds[i] \in DOMAIN payments
        /\ task[j].pc = "returned"
        /\ ~Present(Field(task[j].paymentData, "transaction_id"))
        /\ Present(Field(task[j].paymentData, "billcode"))
        /\ task[j].paymentData.paymentId \in DOMAIN payments

\* a callback with a transaction id and a billing code stored under the former
C14_WitnessTransaction ==
    \E i \in Calls :
        /\ Recorded(i)
        /\ task[i].paymentData.transaction_id = "TX1"
        /\ task[i].billcode = "BC1"
        /\ "TX1" \in DOMAIN payments
        /\ "BC1" \notin DOMAIN payments

\* the body of callback i has no billing code under any of the three names
MissingBillcode(i) ==
    /\ task[i].entry = "callback"
    /\ \A k \in {"billcode", "billCode", "bill_code"} : ~Present(Field(task[i].payload, k))

\* C15: a callback whose body has no billing code, or an empty one, under
\* billcode, billCode and bill_code is answered 200 with {received: true,
\* error: 'Missing billcode'} on arrival, without any store operation.
C15_MissingBillcode ==
    \A i \in Calls :
        (MissingBillcode(i) /\ dbAvailable) =>
            /\ Done(i)
            /\ task[i].res = <<[code |-> 200,
                                body |-> [received |-> TRUE, error |-> "Missing billcode"]]>>
            /\ task[i].ops = {}
            /\ Only(i) => store = <<Scenario.store.orders, Scenario.store.payments,
                                    Scenario.store.payments_by_order, NullObject>>

C15_Witness ==
    \E i \in Calls :
        /\ MissingBillcode(i) /\ dbAvailable /\ Only(i)
        /\ Response(i).body.error = "Missing billcode"
        /\ payments_unmatched = NullObject

\* the characters a query parameter must not show unescaped
Reserved == {" ", "&", "=", "/", "?", "#"}

\* C16: GET /payment/callback attempts no store operation and answers with
\* one redirect to the deep link with billcode, then status and
\* transactionId when they are given, each escaped; {billcode: BC9, status:
\* failed} gives base?billcode=BC9&status=failed.
C16_RedirectOnly ==
    \A i \in Calls :
        task[i].entry = "redirect" =>
            LET query == task[i].payload
                location == Response(i).body.location
                pieces == {location[n] : n \in 1 .. Len(location)}
            IN /\ Done(i)
               /\ Len(task[i].res) = 1
               /\ Response(i).code = 302
               /\ task[i].ops = {}
               /\ store = <<Scenario.store.orders, Scenario.store.payments,
                            Scenario.store.payments_by_order, NullObject>>
               /\ SubSeq(location, 1, 2) = <<"tintaprinting://payment", "?billcode=">>
               /\ "&status=" \in pieces <=> Given(query, "status")
               /\ "&transactionId=" \in pieces <=> Given(query, "transaction_id")
               /\ \A n, m \in 1 .. Len(location) :
                     (location[n] = "&status=" /\ location[m] = "&transactionId=") => n < m
               /\ pieces \cap Reserved = {}
               /\ query = [billcode |-> <<"B", "C", "9">>,
                           status |-> <<"f", "a", "i", "l", "e", "d">>] =>
                      location = <<"tintaprinting://payment", "?billcode=", "B", "C", "9",
                                   "&status=", "f", "a", "i", "l", "e", "d">>
               /\ query = [billcode |-> <<"B", " ", "&", "9">>,
                           transaction_id |-> <<"T", "/", "1", "=", "?">>] =>
                      location = <<"tintaprinting://payment", "?billcode=",
                                   "B", "%", "2", "0", "%", "2", "6", "9",
                                   "&transactionId=",
                                   "T", "%", "2", "F", "1", "%", "3", "D", "%", "3", "F">>
               /\ DOMAIN query = {} =>
                      location = <<"tintaprinting://payment", "?billcode=">>

C16_Witness ==
    \E i, j \in Calls :
        /\ task[i].entry = "redirect"
        /\ task[i].payload = [billcode |-> <<"B", "C", "9">>,
                              status |-> <<"f", "a", "i", "l", "e", "d">>]
        /\ Len(Response(i).body.location) = 12
        /\ task[j].entry = "redirect"
        /\ Given(task[j].payload, "transaction_id")
        /\ ~Given(task[j].payload, "status")
        /\ "%" \in {Response(j).body.location[n] :
                       n \in 1 .. Len(Response(j).body.location)}

\* the step is a set of callback i under payments/ or payments_by_order/
WritesPayment(i) ==
    /\ task[i].entry = "callback"
    /\ \/ payments' # payments /\ task[i].pc = "setPayment"
       \/ payments_by_order' # payments_by_order /\ task[i].pc = "setByOrder"

\* C17: no callback writes a payment record or an index entry for an order
\* that carries, at that moment, a billing code other than the callback's.
C17_NeverWrongOrder ==
    [][\A i \in Calls :
          (WritesPayment(i) /\ task[i].orderId \in DOMAIN orders)
              => CodesOf(orders, task[i].orderId) \subseteq {task[i].billcode}]_vars

\* C18: no step gives an order that carries a billing code, under either
\* spelling, a different one: the billing code fields are written only with
\* the value the order has, or as a backfill when it has none.
C18_BillcodeBackfillOnly ==
    [][\A o \in DOMAIN orders \cap DOMAIN orders' :
          CodesOf(orders, o) # {} => CodesOf(orders', o) = CodesOf(orders, o)]_vars

\* the resolution of callback i has ended
ResolutionEnded(i) ==
    /\ task[i].entry = "callback"
    /\ \/ task[i].pc \in {"readPayloadOrder", "backfillBillcode", "setUnmatched",
                          "setPayment", "setByOrder", "updateOrder"}
       \/ Done(i) /\ \E op \in Writes(i) : op[1] = "set"

\* the trimmed reference starts with ORD or has more than 10 characters
PassesGuard(reference) ==
    LET cs == Chars(Trim(JsString(reference)))
    IN \/ Len(cs) >= 3 /\ <<cs[1], cs[2], cs[3]>> = <<"O", "R", "D">>
       \/ Len(cs) > 10

\* C19: the reference of the payload is the order identifier exactly when
\* the lookups by billing code found no order and the trimmed reference
\* starts with ORD or is longer than 10 characters; with a reference that
\* fails this, and no order found, the callback is stored as unmatched with
\* 'Order ID not resolved'.
C19_ReferenceGuard ==
    \A i \in Calls :
        ResolutionEnded(i) =>
            LET reference == Field(task[i].paymentData, "order_id")
            IN /\ task[i].via = "payload.order_id" <=>
                      /\ task[i].via \notin {"orders.billcode", "orders.billCode",
                                             "payments.billcode", "payments.billCode"}
                      /\ Present(reference)
                      /\ PassesGuard(reference)
               /\ task[i].via = "payload.order_id" =>
                      /\ task[i].orderId = Trim(JsString(reference))
                      /\ <<"query", "orders", "billCode">> \in task[i].ops
                      /\ <<"query", "payments", "billcode">> \in task[i].ops
               /\ task[i].via = "none" =>
                      /\ task[i].orderId = NULL
                      /\ \A op \in task[i].ops : op[1] = "read" => op[3] # reference
                      /\ \A op \in Writes(i) : op[2] = "payments_unmatched"
                      /\ (Done(i) /\ ~Raised(i)) =>
                             /\ Response(i).code = 200
                             /\ Response(i).body.saved = FALSE
                             /\ Response(i).body.warning =
                                    <<"Order ID not resolved. Payment stored in payments_unmatched.">>
                      /\ (Done(i) /\ ~Raised(i) /\ RanAlone(i)) =>
                             \E id \in DOMAIN payments_unmatched :
                                 /\ <<"set", "payments_unmatched", id>> \in Writes(i)
                                 /\ payments_unmatched[id].note = "Order ID not resolved"
                                 /\ "orderId" \notin DOMAIN payments_unmatched[id]

\* a reference of 13 characters taken, and the reference 17 refused although
\* orders/17 exists, in one run
C19_Witness ==
    \E i, j \in Calls :
        /\ Done(i) /\ task[i].via = "payload.order_id"
        /\ task[i].orderId = "2024-ORDER-77"
        /\ Done(j) /\ task[j].via = "none" /\ ~Raised(j)
        /\ task[j].paymentData.order_id = "17"
        /\ "17" \in DOMAIN orders
        /\ Response(j).body.saved = FALSE

\* the set of payments/ and the set of payments_by_order/ of callback i have
\* returned
PaymentSaved(i) ==
    LET record == task[i].record
    IN /\ record # NullObject
       /\ <<"set", "payments", record.paymentId>> \in Writes(i)
       /\ <<"set", "payments_by_order", task[i].orderId, record.paymentId>> \in Writes(i)
       /\ \A op \in task[i].ops : op[1] # "raised" \/ op[2] = "backfillBillcode"

\* C20: in one invocation the order is resolved, then the payment recorded,
\* then the order status written, then the acknowledgement sent: a callback
\* writes PAID or PAYMENT_FAILED to its order only after its sets of
\* payments/ and payments_by_order/ with the matching status have returned,
\* it sets payments/ only with the order and the user resolved, and its
\* success response goes out only when the status write, if the status asks
\* for one, has returned.
C20_StepOrder ==
    [][\A i \in Calls :
          LET status == CanonicalStatus(task[i].paymentData.status)
              orderId == task[i].orderId
          IN /\ (task[i].entry = "callback" /\ orders' # orders
                    /\ task[i].pc = "updateOrder" /\ task'[i].pc # "updateOrder") =>
                    /\ PaymentSaved(i)
                    /\ task[i].record.status = status
                    /\ status \in {"success", "failed"}
                    /\ orders'[orderId].status =
                           (IF status = "success" THEN "PAID" ELSE "PAYMENT_FAILED")
                    /\ task[i].res = <<>>
             /\ (task[i].entry = "callback" /\ payments' # payments
                    /\ task[i].pc = "setPayment") =>
                    /\ Present(orderId) /\ Present(task[i].userId)
                    /\ \A op \in Writes(i) : op[2] \notin {"payments", "payments_by_order"}
                    /\ \A op \in Writes(i) : op[1] = "update" => op[4] = "billcode"
             /\ (~Recorded(i) /\ Recorded(i)') =>
                    /\ PaymentSaved(i)'
                    /\ IF status \in {"success", "failed"}
                       THEN /\ task[i].pc = "updateOrder"
                            /\ <<"update", "orders", orderId, "status">> \in Writes(i)'
                            /\ orders'[orderId].updatedAt = Now(i)
                       ELSE /\ task[i].pc = "setByOrder"
                            /\ orders' = orders]_vars

C20_Witness ==
    \E i \in Calls :
        /\ Recorded(i) /\ PaymentSaved(i)
        /\ CanonicalStatus(task[i].paymentData.status) = "success"
        /\ <<"update", "orders", task[i].orderId, "status">> \in Writes(i)
        /\ orders[task[i].orderId].status = "PAID"
        /\ orders[task[i].orderId].updatedAt = Now(i)

(* C21: the index and the primary records agree at rest *)

NoStoreFailure == \A i \in Calls : \A op \in task[i].ops : op[1] # "raised"

AtRest == \A i \in Calls : task[i].pc \in {"idle", "done"}

EntryMatchesRecord(o, p) ==
    /\ p \in DOMAIN payments
    /\ Field(payments[p], "orderId") = o
    /\ Field(payments[p], "status") = Field(payments_by_order[<<o, p>>], "status")
    /\ Field(payments[p], "amount") = Field(payments_by_order[<<o, p>>], "amount")

IndexConsistent ==
    /\ \A e \in DOMAIN payments_by_order : EntryMatchesRecord(e[1], e[2])
    /\ \A p \in DOMAIN payments :
           ~Falsy(Field(payments[p], "orderId")) =>
               <<Field(payments[p], "orderId"), p>> \in DOMAIN payments_by_order

\* C21: whenever no callback is in flight and no store operation has failed,
\* every entry payments_by_order/{o}/{p} has a record payments/{p} with
\* orderId o and the entry's status and amount, and every record with an
\* orderId has its entry, after any sequence or interleaving of callbacks.
C21_IndexConsistent == (AtRest /\ NoStoreFailure) => IndexConsistent

(* C22: every invocation is acknowledged with exactly one response *)

InFlight(i) == task[i].entry = "callback" /\ task[i].pc # "done"

Responses(i) == Len(task[i].res)

\* C22: provided every store operation eventually returns or raises, every
\* POST /payment/callback invocation eventually reaches the acknowledged
\* state; it has sent no response before that and exactly one from then on
\* (never zero, never two), whatever other callbacks are in flight.
C22_AcknowledgedOnce ==
    /\ \A i \in Calls : (task[i].entry = "callback") ~> Done(i)
    /\ [](\A i \in Calls : Responses(i) = IF Done(i) THEN 1 ELSE 0)
    /\ [][\A i \in Calls : Done(i) => (Done(i)' /\ task[i].res' = task[i].res)]_vars

C22_Witness ==
    \E i, j \in Calls :
        /\ i # j
        /\ Done(i) /\ Responses(i) = 1
        /\ task[i].ops # {} /\ j \notin task[i].pre
        /\ InFlight(j) /\ task[j].ops # {}

====
